---- MODULE Spec2Model ----
(***************************************************************************)
(* Token market program (program/src): the instruction processor, the      *)
(* market record it persists, and the token ledger (SPL token program) it  *)
(* calls through cross-program invocation.                                 *)
(*                                                                         *)
(* An instruction is one atomic step: the runtime commits the account      *)
(* changes of an invocation that returned Ok and discards the changes of   *)
(* one that returned an error or panicked.                                 *)
(*                                                                         *)
(* A cross-program invocation is taken to reach the token program whenever *)
(* the processor issues it; the runtime's resolution of the instruction's  *)
(* accounts against the AccountInfo slice handed to invoke is not          *)
(* modelled.  That resolution can only turn a call that succeeds here into *)
(* a failing one, and a failing invocation commits nothing.                *)
(***************************************************************************)
EXTENDS Integers, FiniteSets, Sequences, TLC

VARIABLES market, token, mint, last

vars == <<market, token, mint, last>>

(***************************************************************************)
(* Bounds and program constants                                            *)
(***************************************************************************)

\* Largest token amount of the model: stands for u64::MAX in checked_add.
MaxAmount == 1

\* Decimals of the acceptable mint created by the test preparation.
AcceptableDecimals == 9

\* Largest value of one byte of instruction data: stands for 255.
ByteMax == 2

\* Bytes of the amount of BuyTokens (u64).
AmountBytes == 8

\* Accounts either arm of process_instruction takes with next_account_info.
AccountsTaken == 7

(***************************************************************************)
(* Addresses                                                               *)
(***************************************************************************)

ProgramId == "token_market"
OtherProgram == "other_program"
NoKey == "default"

Owner == "owner"
Buyer == "buyer"

\* Keys that hold a private key and sign the enclosing transaction.
UserKeys == {Owner, Buyer}

\* mA, mC: accounts created for this program (create_account with owner id()).
\* mB: an account owned by another program, presented as a market record.
Markets == {"mA", "mB", "mC"}

AccountOwner(m) == IF m = "mB" THEN OtherProgram ELSE ProgramId

TokenAccs == {"bank", "woff", "rcpt"}
\* macc: the acceptable mint; memit, mspare: fresh mint accounts.
Mints == {"macc", "memit", "mspare"}

InvalidSeeds == "InvalidSeeds"

\* Pubkey::create_program_address(&[seed], program_id): a deterministic,
\* injective derivation that fails for seeds whose hash lies on the curve (mC).
create_program_address(seed) ==
    CASE seed = "mA" -> "pda_mA"
      [] seed = "mB" -> "pda_mB"
      [] seed = "tmarket" -> "pda_tmarket"
      [] OTHER -> InvalidSeeds

AuthorityKeys == {"pda_mA", "pda_mB", "pda_tmarket", Buyer}

(***************************************************************************)
(* Market record (state.rs)                                                *)
(***************************************************************************)

\* valid = the account bytes decode as a TokenMarket (try_from_slice succeeds).
DefaultMarket ==
    [valid |-> TRUE, is_initialized |-> FALSE, owner |-> NoKey, bank |-> NoKey,
     emitter_mint |-> NoKey, authority |-> NoKey, mint_of_acceptable |-> NoKey]

\* A faulty is_initialized that never reports the flag as set.
is_initialized_never(rec) == FALSE

is_initialized(rec) == rec.is_initialized

\* Contents another program may have given the account it owns.
ForeignRecords ==
    {DefaultMarket, [DefaultMarket EXCEPT !.valid = FALSE]}
    \cup {[valid |-> TRUE, is_initialized |-> TRUE, owner |-> Owner, bank |-> b,
           emitter_mint |-> "memit", authority |-> a, mint_of_acceptable |-> "macc"] :
            b \in {"bank", "woff"}, a \in {"pda_mB"}}

(***************************************************************************)
(* Token ledger: spl_token accounts, mints and the four instructions used  *)
(***************************************************************************)

DefaultAccount ==
    [state |-> "Uninitialized", mint |-> NoKey, owner |-> NoKey, amount |-> 0,
     delegate |-> NoKey, delegated_amount |-> 0]

DefaultMint ==
    [is_initialized |-> FALSE, mint_authority |-> NoKey, supply |-> 0,
     decimals |-> 0, freeze_authority |-> NoKey]

Ledger(t, mi) == [token |-> t, mint |-> mi]

Good(L) == [err |-> "Ok", L |-> L]
Bad(e, L) == [err |-> e, L |-> L]

\* spl_token initialize_account(account, mint, owner)
initialize_account(L, acc, mi, own) ==
    IF L.token[acc].state # "Uninitialized" THEN Bad("Token_AlreadyInUse", L)
    ELSE IF ~L.mint[mi].is_initialized THEN Bad("Token_InvalidMint", L)
    ELSE Good([L EXCEPT !.token[acc] =
                [DefaultAccount EXCEPT !.state = "Initialized", !.mint = mi, !.owner = own]])

\* A faulty initialize_mint call that passes no decimals (zero).
initialize_mint_zero(L, mi, auth, freeze, dec) ==
    IF L.mint[mi].is_initialized THEN Bad("Token_AlreadyInUse", L)
    ELSE Good([L EXCEPT !.mint[mi] =
                [is_initialized |-> TRUE, mint_authority |-> auth, supply |-> 0,
                 decimals |-> 0, freeze_authority |-> freeze]])

\* spl_token initialize_mint(mint, mint_authority, freeze_authority, decimals)
initialize_mint(L, mi, auth, freeze, dec) ==
    IF L.mint[mi].is_initialized THEN Bad("Token_AlreadyInUse", L)
    ELSE Good([L EXCEPT !.mint[mi] =
                [is_initialized |-> TRUE, mint_authority |-> auth, supply |-> 0,
                 decimals |-> dec, freeze_authority |-> freeze]])

\* spl_token transfer(source, destination, authority, amount); signed = the
\* authority account carries the signer privilege in this invocation.
transfer(L, src, dst, auth, signed, amount) ==
    LET s == L.token[src]
        d == L.token[dst]
        byDelegate == s.delegate # NoKey /\ s.delegate = auth
    IN  IF s.state # "Initialized" \/ d.state # "Initialized"
            THEN Bad("Token_UninitializedState", L)
        ELSE IF s.amount < amount THEN Bad("Token_InsufficientFunds", L)
        ELSE IF s.mint # d.mint THEN Bad("Token_MintMismatch", L)
        ELSE IF ~byDelegate /\ s.owner # auth THEN Bad("Token_OwnerMismatch", L)
        ELSE IF ~signed THEN Bad("MissingRequiredSignature", L)
        ELSE IF byDelegate /\ s.delegated_amount < amount
            THEN Bad("Token_InsufficientFunds", L)
        ELSE IF src = dst THEN Good(L)
        ELSE LET left == s.delegated_amount - amount
                 s1 == IF byDelegate
                         THEN [s EXCEPT !.delegated_amount = left,
                                        !.delegate = IF left = 0 THEN NoKey ELSE @]
                         ELSE s
             IN  Good([L EXCEPT !.token[src] = [s1 EXCEPT !.amount = @ - amount],
                                !.token[dst] = [d EXCEPT !.amount = @ + amount]])

\* spl_token mint_to(mint, account, authority, amount)
mint_to(L, mi, dst, auth, signed, amount) ==
    LET d == L.token[dst]
        m == L.mint[mi]
    IN  IF d.state # "Initialized" THEN Bad("Token_UninitializedState", L)
        ELSE IF d.mint # mi THEN Bad("Token_MintMismatch", L)
        ELSE IF ~m.is_initialized THEN Bad("Token_UninitializedState", L)
        ELSE IF m.mint_authority # auth THEN Bad("Token_OwnerMismatch", L)
        ELSE IF ~signed THEN Bad("MissingRequiredSignature", L)
        ELSE IF d.amount + amount > MaxAmount \/ m.supply + amount > MaxAmount
            THEN Bad("Token_Overflow", L)
        ELSE Good([L EXCEPT !.token[dst] = [d EXCEPT !.amount = @ + amount],
                            !.mint[mi] = [m EXCEPT !.supply = @ + amount]])

\* spl_token approve(source, delegate, owner, amount), signed by the owner
approve(L, src, del, own, amount) ==
    LET s == L.token[src]
    IN  IF s.state # "Initialized" THEN Bad("Token_UninitializedState", L)
        ELSE IF s.owner # own THEN Bad("Token_OwnerMismatch", L)
        ELSE Good([L EXCEPT !.token[src] =
                    [s EXCEPT !.delegate = del, !.delegated_amount = amount]])

(***************************************************************************)
(* Instructions and their encoding (instruction.rs, borsh)                 *)
(***************************************************************************)

Byte == 0..ByteMax

\* Largest amount AmountBytes bytes hold: stands for u64::MAX.
U64Max == (ByteMax + 1)^AmountBytes - 1

InitializeIx == [variant |-> "Initialize", amount |-> 0]
BuyTokensIx(n) == [variant |-> "BuyTokens", amount |-> n]

\* enum TokenMarketInstructions
TokenMarketInstructions == {InitializeIx} \cup {BuyTokensIx(n) : n \in 0..U64Max}

\* borsh writes the position of the variant in the enum as one byte.
VariantIndex(variant) == IF variant = "Initialize" THEN 0 ELSE 1

\* A faulty encoding of the amount: most significant byte first.
to_be_bytes(n) ==
    [i \in 1..AmountBytes |-> (n \div (ByteMax + 1)^(AmountBytes - i)) % (ByteMax + 1)]

\* u64::to_le_bytes
to_le_bytes(n) ==
    [i \in 1..AmountBytes |-> (n \div (ByteMax + 1)^(i - 1)) % (ByteMax + 1)]

\* u64::from_le_bytes
RECURSIVE from_le_bytes(_)
from_le_bytes(bytes) ==
    IF Len(bytes) = 0 THEN 0
    ELSE Head(bytes) + (ByteMax + 1) * from_le_bytes(Tail(bytes))

\* BorshSerialize::try_to_vec of an instruction
try_to_vec(ix) ==
    IF ix.variant = "Initialize" THEN <<VariantIndex(ix.variant)>>
    ELSE <<VariantIndex(ix.variant)>> \o to_le_bytes(ix.amount)

DecodeError == [ok |-> FALSE, variant |-> "None", amount |-> 0]
Decoded(ix) == [ok |-> TRUE, variant |-> ix.variant, amount |-> ix.amount]

\* BorshDeserialize::try_from_slice: the variant byte, the payload of the
\* variant, and an error when bytes are missing or left over.
try_from_slice(input) ==
    IF Len(input) = 0 THEN DecodeError
    ELSE IF Head(input) = VariantIndex("Initialize")
        THEN IF Len(input) = 1 THEN Decoded(InitializeIx) ELSE DecodeError
    ELSE IF Head(input) = VariantIndex("BuyTokens")
        THEN IF Len(input) = 1 + AmountBytes
               THEN Decoded(BuyTokensIx(from_le_bytes(Tail(input))))
               ELSE DecodeError
    ELSE DecodeError

TokenProgram == "spl_token"
RentSysvar == "rent_sysvar"

\* AccountMeta::new and AccountMeta::new_readonly, both with is_signer false
AccountMeta_new(pubkey) ==
    [pubkey |-> pubkey, is_signer |-> FALSE, is_writable |-> TRUE]
AccountMeta_new_readonly(pubkey) ==
    [pubkey |-> pubkey, is_signer |-> FALSE, is_writable |-> FALSE]

\* instruction::initialize
initialize(owner, mk, authority, bank, emitter, acceptable) ==
    [accounts |-> <<AccountMeta_new_readonly(owner), AccountMeta_new(mk),
                    AccountMeta_new_readonly(authority), AccountMeta_new(bank),
                    AccountMeta_new(emitter), AccountMeta_new_readonly(acceptable),
                    AccountMeta_new_readonly(TokenProgram),
                    AccountMeta_new_readonly(RentSysvar)>>,
     instruction |-> InitializeIx,
     data |-> try_to_vec(InitializeIx)]

\* A faulty buy_tokens that lists the bank before the emitter mint.
buy_tokens_swapped(mk, authority, emitter, bank, recipient_account, write_off_acc, amount) ==
    [accounts |-> <<AccountMeta_new_readonly(mk), AccountMeta_new_readonly(authority),
                    AccountMeta_new(bank), AccountMeta_new(emitter),
                    AccountMeta_new(recipient_account),
                    AccountMeta_new_readonly(write_off_acc),
                    AccountMeta_new_readonly(TokenProgram),
                    AccountMeta_new_readonly(RentSysvar)>>,
     instruction |-> BuyTokensIx(amount),
     data |-> try_to_vec(BuyTokensIx(amount))]

\* instruction::buy_tokens
buy_tokens(mk, authority, emitter, bank, recipient_account, write_off_acc, amount) ==
    [accounts |-> <<AccountMeta_new_readonly(mk), AccountMeta_new_readonly(authority),
                    AccountMeta_new(emitter), AccountMeta_new(bank),
                    AccountMeta_new(recipient_account),
                    AccountMeta_new_readonly(write_off_acc),
                    AccountMeta_new_readonly(TokenProgram),
                    AccountMeta_new_readonly(RentSysvar)>>,
     instruction |-> BuyTokensIx(amount),
     data |-> try_to_vec(BuyTokensIx(amount))]

(***************************************************************************)
(* Processor (processor.rs)                                                *)
(***************************************************************************)

Outcome(res, mk, L) == [result |-> res, market |-> mk, token |-> L.token, mint |-> L.mint]

\* A faulty signing rule that takes the signing capability from the caller:
\* whatever authority account is supplied counts as signed by the program.
SignedBy_trusting(auth, m) == auth \in UserKeys \/ auth \in AuthorityKeys

\* The authority account is a signer of a CPI issued with
\* invoke_signed(.., &[&[&market_info.key.to_bytes()]]) when it signed the
\* enclosing transaction or is the address derived from those seeds.
SignedBy(auth, m) == auth \in UserKeys \/ auth = create_program_address(m)

\* A faulty process_init_market that names the market owner, not the market
\* authority, as the owner of the bank account.
process_init_market_owner_bank(owner_info, market_info, authority_market_info, bank_info, emitter_info, mint_of_acceptable_info, stored) ==
    LET token_market == market[market_info]
        L0 == Ledger(token, mint)
        decimals == mint[mint_of_acceptable_info].decimals
        pda == create_program_address(market_info)
        r1 == initialize_account(L0, bank_info, mint_of_acceptable_info, owner_info)
        r2 == initialize_mint(r1.L, emitter_info, authority_market_info,
                              authority_market_info, decimals)
        written == [valid |-> TRUE, is_initialized |-> TRUE, owner |-> owner_info,
                    bank |-> bank_info, emitter_mint |-> emitter_info,
                    authority |-> stored,
                    mint_of_acceptable |-> mint_of_acceptable_info]
    IN  IF ~token_market.valid THEN Outcome("BorshIoError", market, L0)
        ELSE IF is_initialized(token_market)
            THEN Outcome("AccountAlreadyInitialized", market, L0)
        ELSE IF pda = InvalidSeeds THEN Outcome("InvalidSeeds", market, L0)
        ELSE IF authority_market_info # pda THEN Outcome("Panic", market, L0)
        ELSE IF r1.err # "Ok" THEN Outcome(r1.err, market, L0)
        ELSE IF r2.err # "Ok" THEN Outcome(r2.err, market, r1.L)
        ELSE Outcome("Ok", [market EXCEPT ![market_info] = written], r2.L)

\* A faulty process_buy_tokens that serializes the record back into the market
\* account, with the bank account it was handed, once both CPIs succeeded.
process_buy_tokens_writes(market_info, authority_market_info, emitter_info, bank_info, recipient_account_info, write_off_account_info, amount) ==
    LET token_market == market[market_info]
        L0 == Ledger(token, mint)
        write_off_account == token[write_off_account_info]
        recipient_account == token[recipient_account_info]
        signed == SignedBy(authority_market_info, market_info)
        r1 == transfer(L0, write_off_account_info, token_market.bank,
                       authority_market_info, signed, amount)
        r2 == mint_to(r1.L, token_market.emitter_mint, recipient_account_info,
                      authority_market_info, signed, amount)
    IN  IF AccountOwner(market_info) = ProgramId THEN Outcome("Panic", market, L0)
        ELSE IF ~token_market.valid THEN Outcome("BorshIoError", market, L0)
        ELSE IF ~is_initialized(token_market)
            THEN Outcome("UninitializedAccount", market, L0)
        ELSE IF write_off_account.state # "Initialized"
            THEN Outcome("UninitializedAccount", market, L0)
        ELSE IF write_off_account.mint # token_market.mint_of_acceptable
            THEN Outcome("InvalidAccountData", market, L0)
        ELSE IF recipient_account.state # "Initialized"
            THEN Outcome("UninitializedAccount", market, L0)
        ELSE IF recipient_account.mint # token_market.emitter_mint
            THEN Outcome("InvalidAccountData", market, L0)
        ELSE IF write_off_account.amount < amount
            THEN Outcome("InsufficientFunds", market, L0)
        ELSE IF r1.err # "Ok" THEN Outcome(r1.err, market, L0)
        ELSE IF r2.err # "Ok" THEN Outcome(r2.err, market, r1.L)
        ELSE Outcome("Ok", [market EXCEPT ![market_info].bank = bank_info], r2.L)

\* Processor::process_init_market.  The TokenMarket literal that is serialized
\* names every field except authority; stored is the value that field gets.
\* The outcome carries the account data as the program leaves it on return,
\* the effects of the CPIs that succeeded before an error included.
process_init_market(owner_info, market_info, authority_market_info, bank_info, emitter_info, mint_of_acceptable_info, stored) ==
    LET token_market == market[market_info]
        L0 == Ledger(token, mint)
        decimals == mint[mint_of_acceptable_info].decimals
        pda == create_program_address(market_info)
        r1 == initialize_account(L0, bank_info, mint_of_acceptable_info,
                                 authority_market_info)
        r2 == initialize_mint(r1.L, emitter_info, authority_market_info,
                              authority_market_info, decimals)
        written == [valid |-> TRUE, is_initialized |-> TRUE, owner |-> owner_info,
                    bank |-> bank_info, emitter_mint |-> emitter_info,
                    authority |-> stored,
                    mint_of_acceptable |-> mint_of_acceptable_info]
    IN  IF ~token_market.valid THEN Outcome("BorshIoError", market, L0)
        ELSE IF is_initialized(token_market)
            THEN Outcome("AccountAlreadyInitialized", market, L0)
        ELSE IF pda = InvalidSeeds THEN Outcome("InvalidSeeds", market, L0)
        ELSE IF authority_market_info # pda THEN Outcome("Panic", market, L0)
        ELSE IF r1.err # "Ok" THEN Outcome(r1.err, market, L0)
        ELSE IF r2.err # "Ok" THEN Outcome(r2.err, market, r1.L)
        ELSE Outcome("Ok", [market EXCEPT ![market_info] = written], r2.L)

\* Processor::process_buy_tokens
process_buy_tokens(market_info, authority_market_info, emitter_info, bank_info, recipient_account_info, write_off_account_info, amount) ==
    LET token_market == market[market_info]
        L0 == Ledger(token, mint)
        write_off_account == token[write_off_account_info]
        recipient_account == token[recipient_account_info]
        signed == SignedBy(authority_market_info, market_info)
        r1 == transfer(L0, write_off_account_info, token_market.bank,
                       authority_market_info, signed, amount)
        r2 == mint_to(r1.L, token_market.emitter_mint, recipient_account_info,
                      authority_market_info, signed, amount)
    IN  IF AccountOwner(market_info) = ProgramId THEN Outcome("Panic", market, L0)
        ELSE IF ~token_market.valid THEN Outcome("BorshIoError", market, L0)
        ELSE IF ~is_initialized(token_market)
            THEN Outcome("UninitializedAccount", market, L0)
        ELSE IF write_off_account.state # "Initialized"
            THEN Outcome("UninitializedAccount", market, L0)
        ELSE IF write_off_account.mint # token_market.mint_of_acceptable
            THEN Outcome("InvalidAccountData", market, L0)
        ELSE IF recipient_account.state # "Initialized"
            THEN Outcome("UninitializedAccount", market, L0)
        ELSE IF recipient_account.mint # token_market.emitter_mint
            THEN Outcome("InvalidAccountData", market, L0)
        ELSE IF write_off_account.amount < amount
            THEN Outcome("InsufficientFunds", market, L0)
        ELSE IF r1.err # "Ok" THEN Outcome(r1.err, market, L0)
        ELSE IF r2.err # "Ok" THEN Outcome(r2.err, market, r1.L)
        ELSE Outcome("Ok", market, r2.L)

\* The handler parameters an account can be bound to.
NoSlots ==
    [owner_info |-> NoKey, market_info |-> NoKey, authority_market_info |-> NoKey,
     bank_info |-> NoKey, emitter_info |-> NoKey, mint_of_acceptable_info |-> NoKey,
     recipient_account_info |-> NoKey, write_off_account_info |-> NoKey,
     token_program_info |-> NoKey]

\* The seven next_account_info calls of the Initialize arm, in order.
InitializeSlots(accounts) ==
    [NoSlots EXCEPT !.owner_info = accounts[1].pubkey,
                    !.market_info = accounts[2].pubkey,
                    !.authority_market_info = accounts[3].pubkey,
                    !.bank_info = accounts[4].pubkey,
                    !.emitter_info = accounts[5].pubkey,
                    !.mint_of_acceptable_info = accounts[6].pubkey,
                    !.token_program_info = accounts[7].pubkey]

\* The seven next_account_info calls of the BuyTokens arm, in order.
BuyTokensSlots(accounts) ==
    [NoSlots EXCEPT !.market_info = accounts[1].pubkey,
                    !.authority_market_info = accounts[2].pubkey,
                    !.emitter_info = accounts[3].pubkey,
                    !.bank_info = accounts[4].pubkey,
                    !.recipient_account_info = accounts[5].pubkey,
                    !.write_off_account_info = accounts[6].pubkey,
                    !.token_program_info = accounts[7].pubkey]

\* What one run of the program did: the variant it dispatched to, how many
\* accounts it took from the account iterator, the handler parameters it
\* bound them to, and its outcome.
Run(dispatched, resolved, bound, out) ==
    [dispatched |-> dispatched, resolved |-> resolved, bound |-> bound,
     result |-> out.result, market |-> out.market, token |-> out.token,
     mint |-> out.mint]

\* The handler call of the arm of the decoded variant.
Dispatch(instruction, slots, stored) ==
    IF instruction.variant = "Initialize"
        THEN process_init_market(slots.owner_info, slots.market_info,
                                 slots.authority_market_info, slots.bank_info,
                                 slots.emitter_info, slots.mint_of_acceptable_info,
                                 stored)
        ELSE process_buy_tokens(slots.market_info, slots.authority_market_info,
                                slots.emitter_info, slots.bank_info,
                                slots.recipient_account_info,
                                slots.write_off_account_info, instruction.amount)

\* A faulty process_instruction that takes its accounts from the iterator
\* before it decodes the instruction data.
process_instruction_eager(accounts, input, stored) ==
    LET instruction == try_from_slice(input)
        untouched(res) == Outcome(res, market, Ledger(token, mint))
        slots == IF instruction.variant = "Initialize"
                   THEN InitializeSlots(accounts) ELSE BuyTokensSlots(accounts)
    IN  IF Len(accounts) < AccountsTaken
            THEN Run("Undecoded", Len(accounts), NoSlots,
                     untouched("NotEnoughAccountKeys"))
        ELSE IF ~instruction.ok
            THEN Run("Undecoded", AccountsTaken, NoSlots, untouched("BorshIoError"))
        ELSE Run(instruction.variant, AccountsTaken, slots,
                 Dispatch(instruction, slots, stored))

\* A faulty process_instruction that does not take the token program account
\* from the iterator and so runs with one account fewer.
process_instruction_six(accounts, input, stored) ==
    LET instruction == try_from_slice(input)
        untouched(res) == Outcome(res, market, Ledger(token, mint))
        padded == accounts \o <<AccountMeta_new_readonly(TokenProgram)>>
        slots == IF instruction.variant = "Initialize"
                   THEN InitializeSlots(padded) ELSE BuyTokensSlots(padded)
    IN  IF ~instruction.ok
            THEN Run("Undecoded", 0, NoSlots, untouched("BorshIoError"))
        ELSE IF Len(accounts) < AccountsTaken - 1
            THEN Run(instruction.variant, Len(accounts), NoSlots,
                     untouched("NotEnoughAccountKeys"))
        ELSE Run(instruction.variant, AccountsTaken - 1, slots,
                 Dispatch(instruction, slots, stored))

\* Processor::process_instruction: decode the data, take the accounts of the
\* decoded variant in order, call its handler.
process_instruction(accounts, input, stored) ==
    LET instruction == try_from_slice(input)
        untouched(res) == Outcome(res, market, Ledger(token, mint))
        slots == IF instruction.variant = "Initialize"
                   THEN InitializeSlots(accounts) ELSE BuyTokensSlots(accounts)
    IN  IF ~instruction.ok
            THEN Run("Undecoded", 0, NoSlots, untouched("BorshIoError"))
        ELSE IF Len(accounts) < AccountsTaken
            THEN Run(instruction.variant, Len(accounts), NoSlots,
                     untouched("NotEnoughAccountKeys"))
        ELSE Run(instruction.variant, AccountsTaken, slots,
                 Dispatch(instruction, slots, stored))

\* The accounts whose data the invocation changed before it returned.
Written(out) ==
    {m \in Markets : out.market[m] # market[m]}
        \cup {a \in TokenAccs : out.token[a] # token[a]}
        \cup {k \in Mints : out.mint[k] # mint[k]}

\* A faulty runtime that keeps what a failed invocation had written.
Commit_keeps(out) ==
    IF \E m \in Markets : out.market[m] # market[m] /\ AccountOwner(m) # ProgramId
        THEN [out EXCEPT !.result = "ExternalAccountDataModified",
                         !.market = market, !.token = token, !.mint = mint]
    ELSE out

\* The runtime behind the entrypoint: account changes are kept only when the
\* program returned Ok and wrote no data of an account it does not own.
Commit(out) ==
    IF out.result # "Ok" THEN [out EXCEPT !.market = market, !.token = token, !.mint = mint]
    ELSE IF \E m \in Markets : out.market[m] # market[m] /\ AccountOwner(m) # ProgramId
        THEN [out EXCEPT !.result = "ExternalAccountDataModified",
                         !.market = market, !.token = token, !.mint = mint]
    ELSE out

(***************************************************************************)
(* State machine                                                           *)
(***************************************************************************)

NoCall ==
    [op |-> "None", result |-> "Ok", market |-> NoKey, authority |-> NoKey,
     bank |-> NoKey, emitter |-> NoKey, acceptable |-> NoKey, owner |-> NoKey,
     recipient |-> NoKey, write_off |-> NoKey, amount |-> 0, writes |-> {},
     instruction |-> DecodeError, input |-> <<>>, decoded |-> DecodeError,
     supplied |-> 0, resolved |-> 0, bound |-> NoSlots]

\* The record of one submitted instruction: what the client sent and what
\* the run of the program reported.
Submitted(ix, n, run, out) ==
    [NoCall EXCEPT !.op = run.dispatched, !.result = out.result,
                   !.writes = Written(run), !.instruction = Decoded(ix.instruction),
                   !.input = ix.data, !.decoded = try_from_slice(ix.data),
                   !.supplied = n, !.resolved = run.resolved,
                   !.bound = run.bound]

Init ==
    /\ market \in [Markets -> ForeignRecords]
    /\ \A m \in Markets : AccountOwner(m) = ProgramId => market[m] = DefaultMarket
    /\ token = [a \in TokenAccs |-> DefaultAccount]
    /\ mint = [m \in Mints |->
                IF m = "macc"
                  THEN [is_initialized |-> TRUE, mint_authority |-> Owner, supply |-> 0,
                        decimals |-> AcceptableDecimals, freeze_authority |-> Owner]
                  ELSE DefaultMint]
    /\ last = NoCall

Apply(out) ==
    /\ market' = out.market
    /\ token' = out.token
    /\ mint' = out.mint

\* TokenMarketInstructions::Initialize
Initialize(o, m, a, b, e, acc, stored) ==
    LET ix == initialize(o, m, a, b, e, acc)
        run == process_instruction(ix.accounts, ix.data, stored)
        out == Commit(run)
    IN  /\ last = NoCall
        /\ Apply(out)
        /\ last' = [Submitted(ix, Len(ix.accounts), run, out) EXCEPT
                      !.market = m, !.authority = a, !.bank = b, !.emitter = e,
                      !.acceptable = acc, !.owner = o]

\* TokenMarketInstructions::BuyTokens { amount }
BuyTokens(m, a, e, b, r, w, amount) ==
    LET ix == buy_tokens(m, a, e, b, r, w, amount)
        run == process_instruction(ix.accounts, ix.data, "unused")
        out == Commit(run)
    IN  /\ last = NoCall
        /\ Apply(out)
        /\ last' = [Submitted(ix, Len(ix.accounts), run, out) EXCEPT
                      !.market = m, !.authority = a, !.bank = b, !.emitter = e,
                      !.recipient = r, !.write_off = w, !.amount = amount]

\* A user's own call of the token program; only calls that succeed are steps.
UserCall(r) ==
    /\ last = NoCall
    /\ r.err = "Ok"
    /\ token' = r.L.token
    /\ mint' = r.L.mint
    /\ UNCHANGED <<market, last>>

\* The client takes the result of its transaction (process_transaction returns)
\* before the next transaction is submitted.
Observe ==
    /\ last # NoCall
    /\ last' = NoCall
    /\ UNCHANGED <<market, token, mint>>

\* initialize_account by the buyer (write-off, recipient or any token account)
UserInitializeAccount(a, mi) ==
    UserCall(initialize_account(Ledger(token, mint), a, mi, Buyer))

\* initialize_mint by a user, naming any mint authority
UserInitializeMint(mi, auth) ==
    UserCall(initialize_mint(Ledger(token, mint), mi, auth, auth, 0))

\* mint_to of the acceptable token by its mint authority (funding)
UserMintTo(a) ==
    UserCall(mint_to(Ledger(token, mint), "macc", a, Owner, TRUE, 1))

\* approve of the market authority on the write-off account by the buyer
UserApprove(a, del, n) ==
    UserCall(approve(Ledger(token, mint), a, del, Buyer, n))

\* A client submits its next transaction once it has the result of the last.
InitializeStep ==
    /\ last = NoCall
    /\ \E m \in Markets, b \in {"bank", "woff"},
          e \in {"memit", "mspare"}, acc \in {"macc", "memit"} :
           \E a \in {create_program_address(m), "pda_tmarket"} \ {InvalidSeeds} :
               \E stored \in {NoKey, a} :
                   Initialize(Owner, m, a, b, e, acc, stored)

BuyTokensStep ==
    /\ last = NoCall
    /\ \E m \in {"mA", "mB"}, a \in AuthorityKeys \ {"pda_tmarket"}, e \in {"memit"},
          b \in {"bank", "rcpt"}, r \in {"rcpt", "woff"}, w \in {"woff", "rcpt"},
          amount \in 0..MaxAmount :
           BuyTokens(m, a, e, b, r, w, amount)

UserStep ==
    \/ \E a \in {"bank", "woff"} : UserInitializeAccount(a, "macc")
    \/ UserInitializeAccount("rcpt", "memit")
    \/ \E auth \in {Buyer, "pda_mB"} : UserInitializeMint("memit", auth)
    \/ UserMintTo("woff")
    \/ \E del \in {"pda_mA", "pda_mB"}, n \in 1..MaxAmount : UserApprove("woff", del, n)

Next == InitializeStep \/ BuyTokensStep \/ UserStep \/ Observe

Spec == Init /\ [][Next]_vars

(***************************************************************************)
(* Instruction data and account lists as they arrive at the entrypoint     *)
(***************************************************************************)

\* Every byte string up to the length of the longest encoding, and the
\* encodings of the smallest and the largest BuyTokens with one more byte.
Buffers ==
    UNION {[1..n -> Byte] : n \in 0..(1 + AmountBytes)}
        \cup {try_to_vec(BuyTokensIx(n)) \o <<b>> : n \in {0, U64Max}, b \in Byte}

\* The account lists of the client: the builders' lists for one market each.
InitializeAccounts ==
    initialize(Owner, "mA", "pda_mA", "bank", "memit", "macc").accounts
BuyTokensAccounts ==
    buy_tokens("mB", "pda_mB", "memit", "bank", "rcpt", "woff", 0).accounts

\* The account list sent along with instruction data: the list of the builder
\* of the variant the data names (of initialize when it names none).
AccountsFor(input) ==
    IF Len(input) > 0 /\ Head(input) = VariantIndex("BuyTokens")
        THEN BuyTokensAccounts
        ELSE InitializeAccounts

\* try_to_vec followed by try_from_slice on one instruction
Encode(ix) ==
    /\ last = NoCall
    /\ last' = [NoCall EXCEPT !.op = "Codec", !.instruction = Decoded(ix),
                              !.input = try_to_vec(ix),
                              !.decoded = try_from_slice(try_to_vec(ix))]
    /\ UNCHANGED <<market, token, mint>>

\* Arbitrary instruction data, with the first n accounts of the account list.
SubmitBytes(input, n, stored) ==
    LET ix == [accounts |-> SubSeq(AccountsFor(input), 1, n),
               instruction |-> DecodeError, data |-> input]
        run == process_instruction(ix.accounts, ix.data, stored)
        out == Commit(run)
    IN  /\ last = NoCall
        /\ Apply(out)
        /\ last' = [Submitted(ix, n, run, out) EXCEPT !.instruction = DecodeError]

EncodeStep ==
    /\ last = NoCall
    /\ \E ix \in TokenMarketInstructions : Encode(ix)

SubmitBytesStep ==
    /\ last = NoCall
    /\ \E input \in Buffers :
           SubmitBytes(input, Len(AccountsFor(input)), "pda_mA")

\* Encoded instructions with fewer accounts than the builder lists.
SubmitShortStep ==
    /\ last = NoCall
    /\ \E ix \in {InitializeIx, BuyTokensIx(0), BuyTokensIx(U64Max)},
          n \in 0..AccountsTaken :
           SubmitBytes(try_to_vec(ix), n, NoKey)

InitWire == Init /\ market["mB"] = DefaultMarket

NextWire == EncodeStep \/ SubmitBytesStep \/ SubmitShortStep \/ Observe

SpecWire == InitWire /\ [][NextWire]_vars

(***************************************************************************)
(* Properties                                                              *)
(***************************************************************************)

IsInit(m) == market[m].valid /\ market[m].is_initialized

\* The record in an account created for this program, set up by Initialize.
Genuine(m) == AccountOwner(m) = ProgramId /\ IsInit(m)

\* The step is the invocation recorded in last'.
Invoked(op) == last.op = "None" /\ last'.op = op

Unmutated == UNCHANGED <<market, token, mint>>

\* C1: an Initialize against a record that is already initialized fails with
\* AccountAlreadyInitialized and leaves the record (and every account) as it
\* was; an Initialize that succeeds found the record uninitialized and leaves
\* it initialized, so at most one Initialize succeeds per record.
C1_InitializeOnce ==
    [][Invoked("Initialize") =>
        /\ IsInit(last'.market) =>
             last'.result = "AccountAlreadyInitialized" /\ Unmutated
        /\ last'.result = "Ok" =>
             /\ ~IsInit(last'.market)
             /\ market'[last'.market].is_initialized]_vars

\* C1 witness: a second Initialize on a record that an earlier Initialize set
\* up was rejected.
C1_Witness ==
    /\ last.op = "Initialize"
    /\ last.result = "AccountAlreadyInitialized"
    /\ Genuine(last.market)

\* C2: Initialize on an uninitialized record of this program with an authority
\* other than the derived one returns IncorrectAuthority and mutates nothing.
C2_IncorrectAuthority ==
    [][(/\ Invoked("Initialize")
        /\ AccountOwner(last'.market) = ProgramId
        /\ market[last'.market].valid
        /\ ~market[last'.market].is_initialized
        /\ create_program_address(last'.market) # InvalidSeeds
        /\ last'.authority # create_program_address(last'.market))
       => last'.result = "IncorrectAuthority" /\ Unmutated]_vars

\* The structural preconditions of BuyTokens other than the balance: the
\* record is initialized, the write-off account is an initialized account of
\* the acceptable mint (and not the bank itself), the recipient an initialized
\* account of the emitter mint.
BuyAccountsValid(c) ==
    /\ IsInit(c.market)
    /\ c.write_off # market[c.market].bank
    /\ token[c.write_off].state = "Initialized"
    /\ token[c.write_off].mint = market[c.market].mint_of_acceptable
    /\ token[c.recipient].state = "Initialized"
    /\ token[c.recipient].mint = market[c.market].emitter_mint

\* C3: BuyTokens with amount above the write-off balance, every other
\* precondition satisfied, fails with InsufficientFunds and changes no balance.
C3_InsufficientFunds ==
    [][(/\ Invoked("BuyTokens")
        /\ BuyAccountsValid(last')
        /\ last'.amount > token[last'.write_off].amount)
       => last'.result = "InsufficientFunds" /\ Unmutated]_vars

\* C4: BuyTokens succeeds on a record created for this program and set up by
\* Initialize, given that market's authority, emitter mint and bank, a valid
\* recipient, a valid write-off account that approved the authority for the
\* amount, and an amount within the write-off balance.
C4_BuySucceeds ==
    [][(/\ Invoked("BuyTokens")
        /\ Genuine(last'.market)
        /\ BuyAccountsValid(last')
        /\ last'.authority = create_program_address(last'.market)
        /\ last'.emitter = market[last'.market].emitter_mint
        /\ last'.bank = market[last'.market].bank
        /\ token[last'.write_off].delegate = last'.authority
        /\ token[last'.write_off].delegated_amount >= last'.amount
        /\ token[last'.write_off].amount >= last'.amount)
       => last'.result = "Ok"]_vars

\* C5: a successful BuyTokens{amount} takes exactly amount from the write-off
\* account, adds exactly amount to the market's bank and exactly amount to the
\* recipient account.
C5_ExactAmounts ==
    [][(Invoked("BuyTokens") /\ last'.result = "Ok") =>
        LET c == last'
            b == market[c.market].bank
        IN  /\ token'[c.write_off].amount = token[c.write_off].amount - c.amount
            /\ token'[b].amount = token[b].amount + c.amount
            /\ token'[c.recipient].amount = token[c.recipient].amount + c.amount]_vars

\* C6: BuyTokens with a recipient account whose mint differs from the record's
\* emitter_mint fails with InvalidAccountData, whatever the amount and balances.
C6_RecipientMint ==
    [][(/\ Invoked("BuyTokens")
        /\ IsInit(last'.market)
        /\ token[last'.write_off].state = "Initialized"
        /\ token[last'.write_off].mint = market[last'.market].mint_of_acceptable
        /\ token[last'.recipient].state = "Initialized"
        /\ token[last'.recipient].mint # market[last'.market].emitter_mint)
       => last'.result = "InvalidAccountData"]_vars

\* C7: BuyTokens against an initialized market fails with UninitializedAccount
\* when the write-off account is uninitialized, with InvalidAccountData when
\* its mint is not the acceptable mint, and performs no transfer and no mint.
C7_WriteOffChecks ==
    [][(Invoked("BuyTokens") /\ IsInit(last'.market)) =>
        LET w == token[last'.write_off]
        IN  /\ w.state # "Initialized" =>
                 last'.result = "UninitializedAccount" /\ Unmutated
            /\ (w.state = "Initialized"
                  /\ w.mint # market[last'.market].mint_of_acceptable) =>
                 last'.result = "InvalidAccountData" /\ Unmutated]_vars

\* C8: BuyTokens against a record that is still uninitialized is rejected with
\* UninitializedAccount and changes neither a balance nor the record.
C8_UninitializedMarket ==
    [][(/\ Invoked("BuyTokens")
        /\ market[last'.market].valid
        /\ ~market[last'.market].is_initialized)
       => last'.result = "UninitializedAccount" /\ Unmutated]_vars

\* C9: BuyTokens with an authority account other than the authority stored in
\* the record fails with IncorrectAuthority before any transfer or mint.
C9_StoredAuthority ==
    [][(/\ Invoked("BuyTokens")
        /\ IsInit(last'.market)
        /\ last'.authority # market[last'.market].authority)
       => last'.result = "IncorrectAuthority" /\ Unmutated]_vars

\* C10: BuyTokens with a bank account other than the bank stored in the record
\* fails, and no account of the acceptable mint other than that bank gains tokens.
C10_BankMatches ==
    [][(/\ Invoked("BuyTokens")
        /\ IsInit(last'.market)
        /\ last'.bank # market[last'.market].bank)
       => /\ last'.result # "Ok"
          /\ \A a \in TokenAccs \ {market[last'.market].bank} :
                token[a].mint = market[last'.market].mint_of_acceptable
                    => token'[a].amount <= token[a].amount]_vars

\* The five identities and the flag of a record that C11 speaks of.
Identity(rec) ==
    <<rec.is_initialized, rec.bank, rec.emitter_mint, rec.mint_of_acceptable,
      rec.authority>>

\* C11: once a record is initialized no step, in particular no Initialize and
\* no BuyTokens, changes its initialized flag, bank, emitter_mint,
\* acceptable mint or authority.
C11_RecordFrozen ==
    [][\A m \in Markets :
        IsInit(m) => market'[m].valid /\ Identity(market'[m]) = Identity(market[m])]_vars

\* C11 witness: a BuyTokens was issued against a record that Initialize set up
\* with a bank and an emitter mint.
C11_Witness ==
    /\ last.op = "BuyTokens"
    /\ Genuine(last.market)
    /\ market[last.market].bank \in TokenAccs
    /\ market[last.market].emitter_mint \in Mints

\* C12: BuyTokens, successful or failing, never writes the market record:
\* the program changes no data of a market account and every record is after
\* the invocation what it was before.
C12_BuyLeavesRecord ==
    [][Invoked("BuyTokens") =>
        /\ last'.writes \cap Markets = {}
        /\ market' = market]_vars

\* C12 witness: a BuyTokens succeeded and moved tokens.
C12_Witness ==
    /\ last.op = "BuyTokens"
    /\ last.result = "Ok"
    /\ last.amount > 0
    /\ last.writes # {}

\* C13: after a successful Initialize the record is initialized and holds the
\* supplied owner, bank, emitter mint and acceptable mint, and as authority
\* the address derived from the market address.
C13_RecordAfterInitialize ==
    [][(Invoked("Initialize") /\ last'.result = "Ok") =>
        market'[last'.market] =
            [valid |-> TRUE, is_initialized |-> TRUE, owner |-> last'.owner,
             bank |-> last'.bank, emitter_mint |-> last'.emitter,
             authority |-> create_program_address(last'.market),
             mint_of_acceptable |-> last'.acceptable]]_vars

\* C14: in every reachable state a record of this program is either fully
\* uninitialized (flag unset, every identity default) or initialized with all
\* five identities set.
C14_AllOrNothingRecord ==
    \A m \in Markets : AccountOwner(m) = ProgramId =>
        \/ market[m] = DefaultMarket
        \/ /\ market[m].valid /\ market[m].is_initialized
           /\ market[m].owner # NoKey
           /\ market[m].bank # NoKey
           /\ market[m].emitter_mint # NoKey
           /\ market[m].authority # NoKey
           /\ market[m].mint_of_acceptable # NoKey

\* C15: after a successful Initialize the bank is a token account of the
\* acceptable mint owned by the derived market authority, with no delegate,
\* and the emitter is a mint whose mint authority and freeze authority are
\* the derived authority.
C15_BankAndEmitterAuthority ==
    [][(Invoked("Initialize") /\ last'.result = "Ok") =>
        LET c == last'
            pda == create_program_address(c.market)
        IN  /\ pda # InvalidSeeds
            /\ token'[c.bank] =
                 [DefaultAccount EXCEPT !.state = "Initialized",
                                        !.mint = c.acceptable, !.owner = pda]
            /\ mint'[c.emitter].is_initialized
            /\ mint'[c.emitter].mint_authority = pda
            /\ mint'[c.emitter].freeze_authority = pda]_vars

\* C15 witness: an Initialize succeeded and its bank is owned by the address
\* derived from the market address.
C15_Witness ==
    /\ last.op = "Initialize"
    /\ last.result = "Ok"
    /\ token[last.bank].owner = create_program_address(last.market)
    /\ mint[last.emitter].mint_authority = create_program_address(last.market)

C17_TmarketAuthority ==
    [][(/\ Invoked("Initialize")
        /\ AccountOwner(last'.market) = ProgramId
        /\ market[last'.market] = DefaultMarket
        /\ token[last'.bank] = DefaultAccount
        /\ mint[last'.emitter] = DefaultMint
        /\ mint[last'.acceptable].is_initialized
        /\ last'.authority = create_program_address("tmarket"))
       => last'.result = "Ok"]_vars

\* The error of the earliest violated precondition of BuyTokens in the order
\* market initialized, write-off initialized, write-off mint, recipient
\* initialized, recipient mint, balance; "none" when all six hold.
FirstViolation(c) ==
    LET rec == market[c.market]
        w == token[c.write_off]
        r == token[c.recipient]
    IN  IF ~rec.is_initialized THEN "UninitializedAccount"
        ELSE IF w.state # "Initialized" THEN "UninitializedAccount"
        ELSE IF w.mint # rec.mint_of_acceptable THEN "InvalidAccountData"
        ELSE IF r.state # "Initialized" THEN "UninitializedAccount"
        ELSE IF r.mint # rec.emitter_mint THEN "InvalidAccountData"
        ELSE IF w.amount < c.amount THEN "InsufficientFunds"
        ELSE "none"

\* C20: a BuyTokens that violates a precondition returns the error of the
\* earliest violated one in the fixed order and issues no token-ledger call.
C20_FirstViolation ==
    [][(/\ Invoked("BuyTokens")
        /\ market[last'.market].valid
        /\ FirstViolation(last') # "none")
       => /\ last'.result = FirstViolation(last')
          /\ last'.writes = {}
          /\ Unmutated]_vars

\* C18: for every instruction, BuyTokens{amount} with any amount from 0 to
\* the largest and Initialize, decoding its encoding yields the instruction
\* itself, variant and amount, and encoding the decoded instruction yields
\* the original bytes; so no variant decodes to the other.
C18_RoundTrip ==
    last.op = "Codec" =>
        /\ last.decoded = last.instruction
        /\ last.decoded.ok
        /\ try_to_vec(last.decoded) = last.input

\* C18 witness: BuyTokens with the largest amount was encoded and decoded.
C18_Witness ==
    /\ last.op = "Codec"
    /\ last.instruction = Decoded(BuyTokensIx(U64Max))
    /\ Len(last.input) = 1 + AmountBytes

\* C19: instruction data either decodes to exactly one of Initialize and
\* BuyTokens{amount}, which the processor dispatches to, or fails to decode;
\* then the invocation fails with the decode error, takes no account from the
\* account list and writes and commits nothing.
C19_DecodeOrFail ==
    [][(last.op = "None" /\ last'.op \in {"Initialize", "BuyTokens", "Undecoded"}) =>
        LET d == try_from_slice(last'.input)
        IN  /\ d.ok =>
                 /\ d.variant \in {"Initialize", "BuyTokens"}
                 /\ d.amount \in 0..U64Max
                 /\ last'.op = d.variant
            /\ ~d.ok =>
                 /\ last'.op = "Undecoded"
                 /\ last'.result = "BorshIoError"
                 /\ last'.resolved = 0
                 /\ last'.writes = {}
                 /\ Unmutated]_vars

\* C19 witness: a full account list came with data one byte longer than the
\* encoding of BuyTokens, and the invocation failed to decode it.
C19_Witness ==
    /\ last.op = "Undecoded"
    /\ last.result = "BorshIoError"
    /\ last.supplied > AccountsTaken
    /\ Len(last.input) = AmountBytes + 2
    /\ Head(last.input) = VariantIndex("BuyTokens")

\* C21: Initialize and BuyTokens keep the supply of the emitter mint of a
\* market that Initialize set up equal to the balance of that market's bank:
\* a successful Initialize leaves both at zero, and every later instruction
\* changes both by the same amount (no accepted token enters the bank without
\* the same amount being emitted, and none is emitted without it).
C21_SupplyEqualsBank ==
    [][(Invoked("Initialize") \/ Invoked("BuyTokens")) =>
        \A m \in Markets :
            LET e == market'[m].emitter_mint
                b == market'[m].bank
            IN  /\ (Genuine(m) /\ last'.op = "BuyTokens") =>
                     mint'[e].supply - mint[e].supply
                        = token'[b].amount - token[b].amount
                /\ (~Genuine(m) /\ AccountOwner(m) = ProgramId
                      /\ market'[m].is_initialized) =>
                     mint'[e].supply = 0 /\ token'[b].amount = 0]_vars

C23_EmitterDecimals ==
    [][(Invoked("Initialize") /\ last'.result = "Ok") =>
        /\ mint'[last'.emitter].decimals = mint[last'.acceptable].decimals
        /\ mint'[last'.acceptable].decimals = mint[last'.acceptable].decimals]_vars

\* C23 witness: an Initialize succeeded with the acceptable mint of the test
\* preparation and the emitter mint has its decimals.
C23_Witness ==
    /\ last.op = "Initialize"
    /\ last.result = "Ok"
    /\ last.acceptable = "macc"
    /\ mint[last.emitter].decimals = AcceptableDecimals

\* C24: an instruction that decodes and comes with fewer accounts than its
\* arm takes (seven for Initialize, seven for BuyTokens) fails with
\* NotEnoughAccountKeys once the supplied accounts are used up, before its
\* handler runs: nothing is written and no record or balance changes.
C24_TooFewAccounts ==
    [][(/\ last.op = "None"
        /\ last'.op \in {"Initialize", "BuyTokens"}
        /\ last'.supplied < AccountsTaken)
       => /\ last'.result = "NotEnoughAccountKeys"
          /\ last'.resolved = last'.supplied
          /\ last'.bound = NoSlots
          /\ last'.writes = {}
          /\ Unmutated]_vars

\* C24 witness: an Initialize came with six accounts, the token program
\* account missing, and failed with NotEnoughAccountKeys.
C24_Witness ==
    /\ last.op = "Initialize"
    /\ last.supplied = AccountsTaken - 1
    /\ last.result = "NotEnoughAccountKeys"

\* The accounts that naming market m as the market of a BuyTokens may
\* change: none of another initialized market's record, bank and emitter.
OtherMarketsUntouched(m) ==
    \A o \in Markets \ {m} : IsInit(o) =>
        /\ market'[o] = market[o]
        /\ token'[market[o].bank].amount = token[market[o].bank].amount
        /\ mint'[market[o].emitter_mint].supply = mint[market[o].emitter_mint].supply

\* C25: a BuyTokens naming an initialized market, whatever other accounts it
\* supplies, changes neither the record nor the bank balance nor the emitter
\* supply of any other initialized market.
C25_OtherMarketUntouched ==
    [][(Invoked("BuyTokens") /\ IsInit(last'.market))
        => OtherMarketsUntouched(last'.market)]_vars

\* C26: the i-th account of the list a builder emits is the account the
\* processor binds to its i-th handler parameter: for Initialize owner,
\* market, authority, bank, emitter, acceptable mint, token program; for
\* BuyTokens market, authority, emitter mint, bank, recipient, write-off,
\* token program.
C26_BuilderMatchesProcessor ==
    [][/\ Invoked("Initialize") =>
            last'.bound =
                [NoSlots EXCEPT !.owner_info = last'.owner,
                                !.market_info = last'.market,
                                !.authority_market_info = last'.authority,
                                !.bank_info = last'.bank,
                                !.emitter_info = last'.emitter,
                                !.mint_of_acceptable_info = last'.acceptable,
                                !.token_program_info = TokenProgram]
       /\ Invoked("BuyTokens") =>
            last'.bound =
                [NoSlots EXCEPT !.market_info = last'.market,
                                !.authority_market_info = last'.authority,
                                !.emitter_info = last'.emitter,
                                !.bank_info = last'.bank,
                                !.recipient_account_info = last'.recipient,
                                !.write_off_account_info = last'.write_off,
                                !.token_program_info = TokenProgram]]_vars

\* C26 witness: a BuyTokens built by buy_tokens ran with its bank and its
\* emitter mint, two different accounts, bound to bank_info and emitter_info.
C26_Witness ==
    /\ last.op = "BuyTokens"
    /\ last.resolved = AccountsTaken
    /\ last.bound.bank_info = last.bank
    /\ last.bound.emitter_info = last.emitter
    /\ last.bank # last.emitter

\* The accounts the builder of the invoked instruction declared writable.
DeclaredWritable(c) ==
    LET accounts ==
            IF c.op = "Initialize"
                THEN initialize(c.owner, c.market, c.authority, c.bank, c.emitter,
                                c.acceptable).accounts
                ELSE buy_tokens(c.market, c.authority, c.emitter, c.bank,
                                c.recipient, c.write_off, c.amount).accounts
    IN  {accounts[i].pubkey : i \in {j \in DOMAIN accounts : accounts[j].is_writable}}

\* C27: every account a successful instruction wrote is declared writable in
\* the account list its builder made.
C27_WritesDeclaredWritable ==
    [][((Invoked("Initialize") \/ Invoked("BuyTokens")) /\ last'.result = "Ok")
        => last'.writes \subseteq DeclaredWritable(last')]_vars

====
